---- MODULE Spec2Model ----
(***************************************************************************)
(* Model of api_ai/model_evaluation/ragas_eval.py: run_evaluation drives   *)
(* a fixed list of hyperparameter presets over a fixed benchmark, scores   *)
(* every question with an external evaluator, averages per preset and      *)
(* tabulates.  External libraries (chain, retriever, evaluator) are        *)
(* nondeterministic inputs: they return a value or raise.                  *)
(*                                                                         *)
(* Numbers: a score is a pair <<num, den>>, a reduced fraction; NaN is     *)
(* <<0, 0>>.  A Python dict is a sequence of <<key, value>> pairs in       *)
(* insertion order.  The evaluator's scores are whole units or NaN, and    *)
(* the elements of a scores list are mappings, as ragas returns them.      *)
(***************************************************************************)
EXTENDS Integers, Sequences, FiniteSets, TLC

\* Largest score (in whole units) the evaluator returns in the full run.
MaxRunScore == 1
\* Largest score the evaluator returns where one question or one
\* configuration is examined on its own.
MaxScore == 1

QUESTION_PAUSE == 180
CONFIG_PAUSE == 300

NaN == <<0, 0>>

Num(v) == <<v, 1>>

IsNaN(x) == x[2] = 0

\* get_manual_hyperparameter_configs(): the preset names, in order.
configs ==
    << "Creative & Balanced", "Wide Context Sweep",
       "Balanced Natural", "Dense Precision" >>

num_configs == Len(configs)

\* create_evaluation_dataset(): the index of the benchmark rows.
eval_dataset_pd == << 0, 1, 2, 3 >>

\* metric_names = [m.name for m in metrics]
metric_names ==
    << "faithfulness", "answer_relevancy", "context_precision", "context_recall" >>

ToSet(s) == { s[j] : j \in 1..Len(s) }

\* The one element of a singleton set.  { e : x \in { v } } is e with x bound
\* to the value of v, computed once.
The(S) == CHOOSE y \in S : TRUE

-----------------------------------------------------------------------------
(* Python dict, insertion ordered *)

HasKey(d, k) == \E j \in 1..Len(d) : d[j][1] = k

\* d.get(k, default)
Get(d, k, default) ==
    IF HasKey(d, k)
    THEN d[CHOOSE j \in 1..Len(d) : d[j][1] = k][2]
    ELSE default

\* d[k] = v : replaces in place, or appends a new key at the end.
Put(d, k, v) ==
    IF HasKey(d, k)
    THEN [ j \in 1..Len(d) |-> IF d[j][1] = k THEN <<k, v>> ELSE d[j] ]
    ELSE Append(d, <<k, v>>)

KeysOf(d) == [ j \in 1..Len(d) |-> d[j][1] ]

\* scores_dict = {name: np.nan for name in metric_names}
InitialScoresDict == [ j \in 1..Len(metric_names) |-> <<metric_names[j], NaN>> ]

-----------------------------------------------------------------------------
(* Lines 202-220: what the try block leaves in scores_dict for a result.   *)
(* A result is [has_scores, scores]; scores is [type, value] with type     *)
(* "list" (value: a sequence of dicts), "to_dict" (value: the dict that    *)
(* to_dict() returns), "dict" (value: the dict) or "other".                *)

ProcessResult(result) ==
    IF result.has_scores
    THEN LET scores_obj == result.scores IN
         IF scores_obj.type = "list" /\ Len(scores_obj.value) > 0
         THEN scores_obj.value[1]
         ELSE IF scores_obj.type = "to_dict"
         THEN scores_obj.value
         ELSE IF scores_obj.type = "dict"
         THEN scores_obj.value
         ELSE InitialScoresDict
    ELSE InitialScoresDict

\* Variant of ScoresDictAtFinally: the dict is initialised with zeros, so a
\* failed question is recorded as zero scores.
ScoresDictZeroOnRaise(outcome) ==
    IF outcome.kind = "raise"
    THEN [ j \in 1..Len(metric_names) |-> <<metric_names[j], Num(0)>> ]
    ELSE ProcessResult(outcome.result)

\* The value of scores_dict when the finally block runs: an exception in the
\* try block leaves the initial all-NaN dict untouched.
ScoresDictAtFinally(outcome) ==
    IF outcome.kind = "raise"
    THEN InitialScoresDict
    ELSE ProcessResult(outcome.result)

\* Variant of FinalScores: scores_dict is appended as it is.
FinalScoresUnfiltered(scores_dict) == scores_dict

\* final_scores = {name: scores_dict.get(name, np.nan) for name in metric_names}
FinalScores(scores_dict) ==
    [ j \in 1..Len(metric_names) |->
        <<metric_names[j], Get(scores_dict, metric_names[j], NaN)>> ]

-----------------------------------------------------------------------------
(* pandas *)

RECURSIVE GCD(_, _)
GCD(a, b) == IF b = 0 THEN a ELSE GCD(b, a % b)

Frac(n, d) == LET g == GCD(n, d) IN <<n \div g, d \div g>>

\* Where key k first appears in a list of dicts: <<row, place in the row>>.
FirstPlace(records, k) ==
    LET r == CHOOSE r \in 1..Len(records) :
                 /\ HasKey(records[r], k)
                 /\ \A r2 \in 1..(r - 1) : ~HasKey(records[r2], k)
    IN  << r, CHOOSE j \in 1..Len(records[r]) : records[r][j][1] = k >>

Earlier(p1, p2) == p1[1] < p2[1] \/ (p1[1] = p2[1] /\ p1[2] < p2[2])

\* pd.DataFrame(list_of_dicts).columns: the keys of the dicts, in order of
\* first appearance (row by row, and within a row in insertion order).
Columns(records) ==
    The({ [ n \in 1..Cardinality(DOMAIN place) |->
              CHOOSE k \in DOMAIN place :
                Cardinality({ k2 \in DOMAIN place : Earlier(place[k2], place[k]) })
                    = n - 1 ] :
          place \in { [ k \in UNION { ToSet(KeysOf(records[r])) : r \in 1..Len(records) }
                          |-> FirstPlace(records, k) ] } })

\* One column of pd.DataFrame(records): a record without the key gives NaN.
Column(records, c) == [ r \in 1..Len(records) |-> Get(records[r], c, NaN) ]

RECURSIVE NanSum(_)
NanSum(vals) ==
    IF vals = << >> THEN 0
    ELSE (IF IsNaN(Head(vals)) THEN 0 ELSE Head(vals)[1]) + NanSum(Tail(vals))

RECURSIVE NanCount(_)
NanCount(vals) ==
    IF vals = << >> THEN 0
    ELSE (IF IsNaN(Head(vals)) THEN 0 ELSE 1) + NanCount(Tail(vals))

\* Variant of NanMean: a missing score counts as a zero.
NanMeanCountingMissing(vals) ==
    IF Len(vals) = 0 THEN NaN
    ELSE Frac(NanSum(vals), Len(vals))

\* Series.mean() with skipna=True, over scores that are whole units or NaN.
NanMean(vals) ==
    IF NanCount(vals) = 0 THEN NaN
    ELSE Frac(NanSum(vals), NanCount(vals))

\* pd.DataFrame(records).mean().to_dict()
MeanToDict(records) ==
    The({ [ j \in 1..Len(cols) |-> <<cols[j], NanMean(Column(records, cols[j]))>> ] :
          cols \in { Columns(records) } })

\* df[wanted]: the table restricted to the wanted columns, in that order.
SelectColumns(records, wanted) ==
    [ columns |-> wanted,
      rows    |-> [ r \in 1..Len(records) |->
                      [ j \in 1..Len(wanted) |->
                          Get(records[r], wanted[j], NaN) ] ] ]

\* Variant of FinalResultsDf: the columns are left in the order of the dicts.
FinalResultsDfUnordered(results) ==
    The({ SelectColumns(results, columns) : columns \in { Columns(results) } })

\* Lines 252-254.
FinalMetricCols(columns) ==
    LET InColumns(name) == name \in ToSet(columns)
    IN  SelectSeq(metric_names, InColumns)

FinalResultsDf(results) ==
    The({ SelectColumns(results, << "combination_name" >> \o final_metric_cols) :
          final_metric_cols \in { FinalMetricCols(Columns(results)) } })

-----------------------------------------------------------------------------
(* External calls: what they return or raise *)

\* configure_ragas_dependencies(): both wrappers, or (None, None) when any
\* constructor raised.
ConfigureRagasDependencies(raised) ==
    IF raised
    THEN [ llm |-> "None", embeddings |-> "None" ]
    ELSE [ llm |-> "LangchainLLMWrapper", embeddings |-> "LangchainEmbeddingsWrapper" ]

Truthy(x) == x # "None"

\* Variant of DependenciesMissing: the check is left out.
DependenciesNeverMissing(deps) == FALSE

\* if not ragas_llm or not ragas_embeddings: return None
DependenciesMissing(deps) == ~Truthy(deps.llm) \/ ~Truthy(deps.embeddings)

\* The calls of the try block, in order; any of them may raise.
TrySteps == { "rag_chain.invoke", "retriever.invoke", "Dataset.from_dict", "evaluate" }

\* The steps of create_rag_chain that may raise.
ChainSteps == { "split_documents", "HuggingFaceEmbeddings", "FAISS.from_documents",
                "ChatGoogleGenerativeAI" }

Raise(step) == [ kind |-> "raise", at |-> step,
                 result |-> [ has_scores |-> FALSE,
                              scores |-> [ type |-> "other", value |-> << >> ] ] ]

Result(has, type, value) ==
    [ kind |-> "result", at |-> "",
      result |-> [ has_scores |-> has, scores |-> [ type |-> type, value |-> value ] ] ]

NoOutcome == [ kind |-> "none", at |-> "",
               result |-> [ has_scores |-> FALSE,
                            scores |-> [ type |-> "other", value |-> << >> ] ] ]

\* A score mapping that gives every configured metric the score v.
FullScores(v) == [ j \in 1..Len(metric_names) |-> <<metric_names[j], Num(v)>> ]

\* The outcomes of one question in the full run: a step raises, or evaluate
\* returns an EvaluationResult whose scores is a list holding one mapping.
RunOutcomes ==
    { Raise(s) : s \in TrySteps }
    \cup { Result(TRUE, "list", << FullScores(v) >>) : v \in 1..MaxRunScore }

-----------------------------------------------------------------------------
VARIABLES
    pc,                  \* position in run_evaluation
    deps,                \* (ragas_llm, ragas_embeddings)
    i,                   \* index of the configuration in the outer loop
    index,               \* index of the benchmark row in the inner loop
    rag_chain,           \* the configuration whose chain is built, -1 before
    combination_scores,  \* the records of the current configuration
    all_results,         \* one averages dict per finished configuration
    outcome,             \* what the try block of the current question met
    evaluating,          \* the (configuration, question) pairs in the try block
    returned,            \* the value run_evaluation returned
    error,               \* the exception that left run_evaluation, "" if none
    log                  \* chain builds, chain invocations, averages and sleeps

vars == << pc, deps, i, index, rag_chain, combination_scores, all_results,
           outcome, evaluating, returned, error, log >>

NotReturned == [ kind |-> "nothing", columns |-> << >>, rows |-> << >> ]
ReturnedNone == [ kind |-> "None", columns |-> << >>, rows |-> << >> ]
ReturnedDf(df) == [ kind |-> "DataFrame", columns |-> df.columns, rows |-> df.rows ]

\* for i, config in enumerate(configs)
ConfigsLeft(config) == config < num_configs

\* Variant of QuestionsLeft: the last benchmark row is left out.
QuestionsLeftButLast(row) == row < Len(eval_dataset_pd) - 1

\* for index, row in eval_dataset_pd.iterrows()
QuestionsLeft(row) == row < Len(eval_dataset_pd)

Event(op, config, arg) == [ op |-> op, config |-> config, arg |-> arg ]

Init ==
    /\ pc = "configure"
    /\ deps = [ llm |-> "None", embeddings |-> "None" ]
    /\ i = 0
    /\ index = 0
    /\ rag_chain = -1
    /\ combination_scores = << >>
    /\ all_results = << >>
    /\ outcome = NoOutcome
    /\ evaluating = { }
    /\ returned = NotReturned
    /\ error = ""
    /\ log = << >>

\* Line 146.
Configure ==
    /\ pc = "configure"
    /\ \E raised \in BOOLEAN : deps' = ConfigureRagasDependencies(raised)
    /\ pc' = "check_dependencies"
    /\ UNCHANGED << i, index, rag_chain, combination_scores, all_results,
                    outcome, evaluating, returned, error, log >>

\* Lines 147-148.
ReturnNone ==
    /\ pc = "check_dependencies"
    /\ DependenciesMissing(deps)
    /\ returned' = ReturnedNone
    /\ pc' = "returned"
    /\ UNCHANGED << deps, i, index, rag_chain, combination_scores, all_results,
                    outcome, evaluating, error, log >>

\* Lines 150-164: the locals of the run, before the outer loop.
Setup ==
    /\ pc = "check_dependencies"
    /\ ~DependenciesMissing(deps)
    /\ all_results' = << >>
    /\ i' = 0
    /\ pc' = "config_loop"
    /\ UNCHANGED << deps, index, rag_chain, combination_scores,
                    outcome, evaluating, returned, error, log >>

\* Lines 165-179: the chain of configuration i is built, the records reset.
CreateRagChain ==
    /\ pc = "config_loop"
    /\ ConfigsLeft(i)
    /\ rag_chain' = i
    /\ combination_scores' = << >>
    /\ index' = 0
    /\ log' = Append(log, Event("create_rag_chain", i, 0))
    /\ pc' = "question_loop"
    /\ UNCHANGED << deps, i, all_results, outcome, evaluating, returned, error >>

\* Variant of CreateRagChainRaises: the exception is caught and the
\* configuration skipped.
CreateRagChainSkipped ==
    /\ pc = "config_loop"
    /\ ConfigsLeft(i)
    /\ log' = Append(log, Event("create_rag_chain", i, 0))
    /\ i' = i + 1
    /\ UNCHANGED << pc, deps, index, rag_chain, combination_scores, all_results,
                    outcome, evaluating, returned, error >>

\* Lines 171-176: create_rag_chain raises; nothing in run_evaluation catches it.
CreateRagChainRaises ==
    /\ pc = "config_loop"
    /\ ConfigsLeft(i)
    /\ \E step \in ChainSteps : error' = step
    /\ log' = Append(log, Event("create_rag_chain", i, 0))
    /\ pc' = "raised"
    /\ UNCHANGED << deps, i, index, rag_chain, combination_scores, all_results,
                    outcome, evaluating, returned >>

\* Lines 179-200: the try block of one question, up to the result of evaluate.
EvaluateQuestion(outcomes) ==
    /\ pc = "question_loop"
    /\ QuestionsLeft(index)
    /\ \E o \in outcomes : outcome' = o
    /\ evaluating' = evaluating \cup { <<i, eval_dataset_pd[index + 1]>> }
    /\ log' = Append(log, Event("invoke", rag_chain, eval_dataset_pd[index + 1]))
    /\ pc' = "process"
    /\ UNCHANGED << deps, i, index, rag_chain, combination_scores, all_results,
                    returned, error >>

\* Variant of RecordQuestion: no except clause, so after the finally block
\* the exception of the try block leaves run_evaluation.
RecordQuestionReraises ==
    /\ pc = "process"
    /\ combination_scores' =
           Append(combination_scores, FinalScores(ScoresDictAtFinally(outcome)))
    /\ log' = Append(log, Event("sleep", i, QUESTION_PAUSE))
    /\ evaluating' = evaluating \ { <<i, eval_dataset_pd[index + 1]>> }
    /\ index' = index + 1
    /\ pc' = IF outcome.kind = "raise" THEN "raised" ELSE "question_loop"
    /\ error' = IF outcome.kind = "raise" THEN outcome.at ELSE error
    /\ UNCHANGED << deps, i, rag_chain, all_results, outcome, returned >>

\* Lines 202-230: the result is processed, an exception swallowed, and the
\* finally block appends the record and sleeps.
RecordQuestion ==
    /\ pc = "process"
    /\ combination_scores' =
           Append(combination_scores, FinalScores(ScoresDictAtFinally(outcome)))
    /\ log' = Append(log, Event("sleep", i, QUESTION_PAUSE))
    /\ evaluating' = evaluating \ { <<i, eval_dataset_pd[index + 1]>> }
    /\ index' = index + 1
    /\ pc' = "question_loop"
    /\ UNCHANGED << deps, i, rag_chain, all_results, outcome, returned, error >>

\* Variant of Average: the average is taken inside the question loop, after
\* the first record.
AverageInsideLoop ==
    /\ pc = "question_loop"
    /\ index >= 1
    /\ all_results' = Append(all_results,
                             Put(MeanToDict(combination_scores),
                                 "combination_name", configs[i + 1]))
    /\ log' = Append(log, Event("mean", i, 0))
    /\ pc' = "pause"
    /\ UNCHANGED << deps, i, index, rag_chain, combination_scores,
                    outcome, evaluating, returned, error >>

\* Lines 232-235.
AverageScores(records, name) ==
    The({ Put(avg_scores_df, "combination_name", name) :
          avg_scores_df \in { MeanToDict(records) } })

Average ==
    /\ pc = "question_loop"
    /\ ~QuestionsLeft(index)
    /\ all_results' = Append(all_results,
                             AverageScores(combination_scores, configs[i + 1]))
    /\ log' = Append(log, Event("mean", i, 0))
    /\ pc' = "pause"
    /\ UNCHANGED << deps, i, index, rag_chain, combination_scores,
                    outcome, evaluating, returned, error >>

\* Variant of PauseDue: the pause is taken after the last configuration too.
PauseDueAfterLast(config) == config < num_configs

\* if i < num_configs - 1
PauseDue(config) == config < num_configs - 1

\* Lines 245-249.
ConfigPause ==
    /\ pc = "pause"
    /\ PauseDue(i)
    /\ log' = Append(log, Event("sleep", i, CONFIG_PAUSE))
    /\ i' = i + 1
    /\ pc' = "config_loop"
    /\ UNCHANGED << deps, index, rag_chain, combination_scores, all_results,
                    outcome, evaluating, returned, error >>

\* Line 245, the last configuration: no pause.
NoConfigPause ==
    /\ pc = "pause"
    /\ ~PauseDue(i)
    /\ i' = i + 1
    /\ pc' = "config_loop"
    /\ UNCHANGED << deps, index, rag_chain, combination_scores, all_results,
                    outcome, evaluating, returned, error, log >>

\* Lines 251-255.
Finalize ==
    /\ pc = "config_loop"
    /\ ~ConfigsLeft(i)
    /\ returned' = ReturnedDf(FinalResultsDf(all_results))
    /\ pc' = "returned"
    /\ UNCHANGED << deps, i, index, rag_chain, combination_scores, all_results,
                    outcome, evaluating, error, log >>

AskQuestion == EvaluateQuestion(RunOutcomes)

Next ==
    \/ Configure
    \/ ReturnNone
    \/ Setup
    \/ CreateRagChain
    \/ CreateRagChainRaises
    \/ AskQuestion
    \/ RecordQuestion
    \/ Average
    \/ ConfigPause
    \/ NoConfigPause
    \/ Finalize

Spec == Init /\ [][Next]_vars

-----------------------------------------------------------------------------
(* The run with the outcome of a question reduced to what decides control  *)
(* flow: a step of the try block raises, or evaluate returns scores.  The  *)
(* script is one thread and every call returns or raises, so a step that   *)
(* can be taken is taken.                                                  *)

FailureOutcomes ==
    { Raise(s) : s \in TrySteps } \cup { Result(TRUE, "list", << FullScores(1) >>) }

AskQuestionOrFail == EvaluateQuestion(FailureOutcomes)

NextFair ==
    \/ Configure
    \/ ReturnNone
    \/ Setup
    \/ CreateRagChain
    \/ CreateRagChainRaises
    \/ AskQuestionOrFail
    \/ RecordQuestion
    \/ Average
    \/ ConfigPause
    \/ NoConfigPause
    \/ Finalize

FairSpec == Init /\ [][NextFair]_vars /\ WF_vars(NextFair)

-----------------------------------------------------------------------------
(* One question examined on its own: the first question of the first       *)
(* configuration, its chain built, with every shape of result the          *)
(* processing logic distinguishes.                                         *)

\* The keys a score mapping may carry: the configured metrics and one more.
ScoreKeys == metric_names \o << "answer_correctness" >>

Absent == <<0, -1>>

ScoreChoices == { Absent, NaN } \cup { Num(v) : v \in 1..MaxScore }

\* The mapping that holds key j of ScoreKeys with value f[j] unless f[j] is Absent.
ScoreDict(f) ==
    LET Held(pair) == pair[2] # Absent
    IN  SelectSeq([ j \in 1..Len(ScoreKeys) |-> <<ScoreKeys[j], f[j]>> ], Held)

ScoreDicts == { ScoreDict(f) : f \in [ 1..Len(ScoreKeys) -> ScoreChoices ] }

AllOutcomes ==
    { Raise(s) : s \in TrySteps }
    \cup { Result(FALSE, "other", << >>),
           Result(TRUE, "other", << >>),
           Result(TRUE, "list", << >>) }
    \cup { Result(TRUE, "list", << d >>) : d \in ScoreDicts }
    \cup { Result(TRUE, "list", << d, FullScores(1) >>) : d \in ScoreDicts }
    \cup { Result(TRUE, "to_dict", d) : d \in ScoreDicts }
    \cup { Result(TRUE, "dict", d) : d \in ScoreDicts }

\* The state of the run when the first chain is built.
InitScores ==
    /\ pc = "question_loop"
    /\ deps = ConfigureRagasDependencies(FALSE)
    /\ i = 0
    /\ index = 0
    /\ rag_chain = 0
    /\ combination_scores = << >>
    /\ all_results = << >>
    /\ outcome = NoOutcome
    /\ evaluating = { }
    /\ returned = NotReturned
    /\ error = ""
    /\ log = << Event("create_rag_chain", 0, 0) >>

ExamineQuestion ==
    /\ index = 0
    /\ EvaluateQuestion(AllOutcomes)

NextScores ==
    \/ ExamineQuestion
    \/ RecordQuestion

SpecScores == InitScores /\ [][NextScores]_vars

-----------------------------------------------------------------------------
(* One configuration averaged on its own: the first configuration, every   *)
(* question recorded, each record missing any set of metrics.              *)

\* A record in which the metrics of `missing` are NaN and the others score v.
MaskedScores(missing, v) ==
    [ j \in 1..Len(metric_names) |->
        <<metric_names[j], IF metric_names[j] \in missing THEN NaN ELSE Num(v)>> ]

MeanRecords ==
    { MaskedScores(missing, v) : missing \in SUBSET ToSet(metric_names), v \in 1..MaxScore }

\* An outcome of the last question that leaves `record` as its record.
OutcomeOf(record) == Result(TRUE, "list", << record >>)

\* The log of a configuration whose questions are all recorded.
RECURSIVE QuestionLog(_, _)
QuestionLog(config, n) ==
    IF n = 0 THEN << Event("create_rag_chain", config, 0) >>
    ELSE QuestionLog(config, n - 1)
         \o << Event("invoke", config, eval_dataset_pd[n]),
               Event("sleep", config, QUESTION_PAUSE) >>

InitMean ==
    /\ pc = "question_loop"
    /\ deps = ConfigureRagasDependencies(FALSE)
    /\ i = 0
    /\ index = Len(eval_dataset_pd)
    /\ rag_chain = 0
    /\ \E f \in [ 1..Len(eval_dataset_pd) -> MeanRecords ] :
         /\ combination_scores = [ q \in 1..Len(eval_dataset_pd) |-> f[q] ]
         /\ outcome = OutcomeOf(f[Len(eval_dataset_pd)])
    /\ all_results = << >>
    /\ evaluating = { }
    /\ returned = NotReturned
    /\ error = ""
    /\ log = QuestionLog(0, Len(eval_dataset_pd))

NextMean == Average

SpecMean == InitMean /\ [][NextMean]_vars

-----------------------------------------------------------------------------
(* Properties *)

\* A record that holds exactly the configured metrics, every one missing.
AllMissing(record) ==
    /\ KeysOf(record) = metric_names
    /\ \A j \in 1..Len(record) : IsNaN(record[j][2])

\* The places of the log that hold an event of kind op.
Places(op) == { j \in 1..Len(log) : log[j].op = op }

\* No (configuration, question) pair is asked twice.
NoRetry ==
    \A j, k \in Places("invoke") :
        (log[j].config = log[k].config /\ log[j].arg = log[k].arg) => j = k

\* C1: when a step of a question's try block raises, the finally block
\* appends exactly one record for that question, holding every configured
\* metric as NaN, nothing escapes run_evaluation, and the loop stands at the
\* next question; no (configuration, question) pair is ever asked twice.
C1_ExceptionRecordedOnce ==
    [][ /\ NoRetry'
        /\ (pc = "process" /\ outcome.kind = "raise") =>
              /\ Len(combination_scores') = Len(combination_scores) + 1
              /\ SubSeq(combination_scores', 1, Len(combination_scores))
                    = combination_scores
              /\ AllMissing(combination_scores'[Len(combination_scores')])
              /\ pc' = "question_loop"
              /\ index' = index + 1
              /\ i' = i
              /\ error' = "" ]_vars

\* A question other than the last one has just failed and been recorded.
C1_Witness ==
    /\ pc = "question_loop"
    /\ outcome.kind = "raise"
    /\ index \in 1..(Len(eval_dataset_pd) - 1)
    /\ Len(combination_scores) = index
    /\ AllMissing(combination_scores[index])

\* C8: an exception of create_rag_chain leaves run_evaluation: the run stops
\* there for good with nothing returned, its last act being the failed build,
\* and a table that is returned never lacks the row of a configuration.
C8_ChainFailureAborts ==
    [][ /\ pc # "raised"
        /\ pc' = "raised" =>
              /\ returned' = NotReturned
              /\ error' \in ChainSteps
              /\ log'[Len(log')] = Event("create_rag_chain", i', 0)
              /\ Len(all_results') = i'
        /\ returned'.kind = "DataFrame" => Len(returned'.rows) = num_configs ]_vars

\* The chain of a later configuration failed to build after earlier
\* configurations were averaged.
C8_Witness ==
    /\ pc = "raised"
    /\ i >= 1
    /\ Len(all_results) = i
    /\ returned = NotReturned

EitherDependencyFalsy == deps.llm = "None" \/ deps.embeddings = "None"

\* C9: when the dependencies are missing, run_evaluation returns None at
\* once: no chain is built, no question asked, no pause taken, nothing averaged.
C9_MissingDependenciesReturnNone ==
    (EitherDependencyFalsy /\ pc \notin { "configure", "check_dependencies" }) =>
        /\ pc = "returned"
        /\ returned = ReturnedNone
        /\ log = << >>
        /\ rag_chain = -1
        /\ combination_scores = << >>
        /\ all_results = << >>
        /\ error = ""

C9_Witness ==
    /\ pc = "returned"
    /\ EitherDependencyFalsy
    /\ returned = ReturnedNone

\* The events of kind op, in the order of the log.
EventsOf(op) ==
    LET IsOp(e) == e.op = op
    IN  SelectSeq(log, IsOp)

\* Every chain invocation of a complete run: configuration by configuration,
\* and within a configuration question by question.
ExpectedInvokes ==
    [ n \in 1..(num_configs * Len(eval_dataset_pd)) |->
        Event("invoke", (n - 1) \div Len(eval_dataset_pd),
              eval_dataset_pd[((n - 1) % Len(eval_dataset_pd)) + 1]) ]

IsPrefix(s, t) == Len(s) <= Len(t) /\ s = SubSeq(t, 1, Len(s))

\* The cells of one column of the returned table, top to bottom.
ReturnedColumn(name) ==
    LET c == CHOOSE c \in 1..Len(returned.columns) : returned.columns[c] = name
    IN  [ r \in 1..Len(returned.rows) |-> returned.rows[r][c] ]

\* C4: the chain of each preset is invoked once per benchmark question, in
\* benchmark order and preset by preset, and the table that is returned has
\* one row per preset, in preset order, carrying the preset's name.
C4_OncePerQuestionOneRowPerPreset ==
    /\ IsPrefix(EventsOf("invoke"), ExpectedInvokes)
    /\ returned.kind = "DataFrame" =>
          /\ EventsOf("invoke") = ExpectedInvokes
          /\ ReturnedColumn("combination_name") = configs

\* A table is returned from a run in which a question failed.
C4_Witness ==
    /\ returned.kind = "DataFrame"
    /\ Len(returned.rows) = num_configs
    /\ \E r \in 1..Len(all_results) :
          IsNaN(Get(all_results[r], "faithfulness", Num(0)))
    /\ \E r \in 1..Len(all_results) :
          ~IsNaN(Get(all_results[r], "faithfulness", NaN))

IsSleep(e, seconds) == e.op = "sleep" /\ e.arg = seconds

\* The number of sleeps of the given length at the log places of S.
Sleeps(S, seconds) == Cardinality({ j \in S : IsSleep(log[j], seconds) })

\* The log places after place j and before the next chain invocation.
UntilNextInvoke(j) ==
    { k \in (j + 1)..Len(log) : \A m \in (j + 1)..k : log[m].op # "invoke" }

\* C5: every question attempt is followed by exactly one 180-second pause
\* before the next attempt begins (none yet while the attempt is under way);
\* a 300-second pause is taken once after the average of each configuration
\* but the last, before the next chain is built, and never after the last.
C5_Pauses ==
    /\ \A j \in Places("invoke") :
          IF j = Len(log)
          THEN pc = "process"
          ELSE /\ IsSleep(log[j + 1], QUESTION_PAUSE)
               /\ Sleeps(UntilNextInvoke(j), QUESTION_PAUSE) = 1
    /\ Sleeps(1..Len(log), QUESTION_PAUSE) + (IF pc = "process" THEN 1 ELSE 0)
          = Cardinality(Places("invoke"))
    /\ \A j \in Places("mean") :
          IF log[j].config = num_configs - 1
          THEN j = Len(log)
          ELSE j = Len(log) \/ log[j + 1] = Event("sleep", log[j].config, CONFIG_PAUSE)
    /\ \A j \in 1..Len(log) :
          IsSleep(log[j], CONFIG_PAUSE) =>
              /\ j > 1
              /\ log[j - 1] = Event("mean", log[j].config, 0)
              /\ log[j].config < num_configs - 1
    /\ \A j \in Places("create_rag_chain") :
          log[j].config > 0 =>
              log[j - 1] = Event("sleep", log[j].config - 1, CONFIG_PAUSE)
    /\ returned.kind = "DataFrame" =>
          /\ Sleeps(1..Len(log), CONFIG_PAUSE) = num_configs - 1
          /\ Sleeps(1..Len(log), QUESTION_PAUSE) = num_configs * Len(eval_dataset_pd)

\* A complete run in which a question failed: its pauses were all taken.
C5_Witness ==
    /\ returned.kind = "DataFrame"
    /\ Sleeps(1..Len(log), CONFIG_PAUSE) = num_configs - 1
    /\ \E r \in 1..Len(all_results) :
          IsNaN(Get(all_results[r], "answer_relevancy", Num(0)))

\* C6: at most one question is under evaluation at any time; an average is
\* taken only when every benchmark question of the configuration has its
\* record; the chain of a configuration is built only after the averages of
\* all earlier configurations are in the results.
C6_StrictlySequential ==
    /\ Cardinality(evaluating) <= 1
    /\ evaluating # { } => pc = "process"
    /\ pc = "pause" =>
          /\ Len(combination_scores) = Len(eval_dataset_pd)
          /\ Len(all_results) = i + 1
    /\ Len(all_results) = Cardinality(Places("mean"))
    /\ \A j \in Places("mean") :
          Cardinality({ k \in 1..(j - 1) :
              log[k].op = "invoke" /\ log[k].config = log[j].config })
            = Len(eval_dataset_pd)
    /\ \A j \in Places("create_rag_chain") :
          \A c \in 0..(log[j].config - 1) :
              \E k \in 1..(j - 1) : log[k] = Event("mean", c, 0)
    /\ rag_chain >= 0 => Len(all_results) >= rag_chain

\* The chain of the second configuration is built and a question of it is
\* under evaluation.
C6_Witness ==
    /\ pc = "process"
    /\ rag_chain = 1
    /\ evaluating = { <<1, 2>> }
    /\ Len(all_results) = 1

\* C3: the returned table has combination_name first, then the metric
\* columns in the order of the configured metric list, none dropped or added.
C3_ColumnOrder ==
    returned.kind = "DataFrame" =>
        /\ returned.columns =
              << "combination_name", "faithfulness", "answer_relevancy",
                 "context_precision", "context_recall" >>
        /\ \A r \in 1..Len(returned.rows) :
              Len(returned.rows[r]) = Len(returned.columns)

\* A table is returned from a run with a configuration whose questions all
\* failed and one whose questions did not.
C3_Witness ==
    /\ returned.kind = "DataFrame"
    /\ \E r \in 1..Len(returned.rows) :
          \A c \in 2..Len(returned.columns) : IsNaN(returned.rows[r][c])
    /\ \E r \in 1..Len(returned.rows) :
          \A c \in 2..Len(returned.columns) : ~IsNaN(returned.rows[r][c])

\* The run is over: a chain failed to build, or the full table is returned.
RunOver ==
    \/ pc = "raised"
    \/ returned.kind = "DataFrame" /\ Len(returned.rows) = num_configs

\* The averages dict of the configuration averaged last.
LastAverages == all_results[Len(all_results)]

\* C7: failures of questions never leave run_evaluation: only a chain build
\* raises out of it; once the dependencies are configured the run ends, with
\* the table of one row per configuration unless a chain failed to build;
\* and a configuration whose questions all failed gets missing averages.
C7_FailuresNeverEscalate ==
    /\ [](pc = "raised" => error \in ChainSteps)
    /\ (pc = "config_loop") ~> RunOver
    /\ []((pc = "pause" /\ \A r \in 1..Len(combination_scores) :
                               AllMissing(combination_scores[r]))
            => \A j \in 1..Len(metric_names) :
                   IsNaN(Get(LastAverages, metric_names[j], Num(0))))

\* The table is returned from a run in which every question of every
\* configuration failed.
C7_Witness ==
    /\ returned.kind = "DataFrame"
    /\ Len(returned.rows) = num_configs
    /\ \A r \in 1..Len(returned.rows) :
          \A c \in 2..Len(returned.columns) : IsNaN(returned.rows[r][c])

\* A result whose shape the processing logic does not expect.
UnexpectedShape(result) ==
    \/ ~result.has_scores
    \/ result.scores.type = "list" /\ result.scores.value = << >>
    \/ result.scores.type \notin { "list", "to_dict", "dict" }

\* The score mapping an expected result carries.
ScoreMapping(result) ==
    IF result.scores.type = "list"
    THEN Head(result.scores.value)
    ELSE result.scores.value

\* C10: the record appended for a question holds exactly the configured
\* metric names as keys, in their order; a metric the score mapping lacks is
\* NaN, a metric it holds keeps its value, other keys are dropped; a result
\* of unexpected shape gives the all-NaN record; nothing is raised.
C10_RecordKeysAreMetricNames ==
    [][ pc = "process" =>
          LET record == combination_scores'[Len(combination_scores')] IN
          /\ Len(combination_scores') = Len(combination_scores) + 1
          /\ \A r \in 1..Len(combination_scores') :
                KeysOf(combination_scores'[r]) = metric_names
          /\ error' = ""
          /\ pc' = "question_loop"
          /\ outcome.kind = "result" =>
                IF UnexpectedShape(outcome.result)
                THEN AllMissing(record)
                ELSE \A j \in 1..Len(metric_names) :
                        record[j][2] =
                            IF \E p \in ToSet(ScoreMapping(outcome.result)) :
                                   p[1] = metric_names[j]
                            THEN (CHOOSE p \in ToSet(ScoreMapping(outcome.result)) :
                                      p[1] = metric_names[j])[2]
                            ELSE NaN ]_vars

\* A question is recorded whose score mapping lacked a configured metric,
\* held another with a score, and held a key that is no configured metric.
C10_Witness ==
    /\ pc = "question_loop"
    /\ index = 1
    /\ outcome.kind = "result"
    /\ outcome.result.has_scores
    /\ outcome.result.scores.type = "to_dict"
    /\ HasKey(outcome.result.scores.value, "answer_correctness")
    /\ ~HasKey(outcome.result.scores.value, "faithfulness")
    /\ ~IsNaN(Get(outcome.result.scores.value, "context_recall", NaN))
    /\ KeysOf(combination_scores[1]) = metric_names
    /\ IsNaN(combination_scores[1][1][2])
    /\ ~IsNaN(combination_scores[1][4][2])

\* The questions of the current configuration whose record holds a score
\* for the metric.
Scored(metric) ==
    { r \in 1..Len(combination_scores) :
        \E p \in ToSet(combination_scores[r]) : p[1] = metric /\ p[2][2] # 0 }

RECURSIVE TotalScore(_, _)
TotalScore(S, metric) ==
    IF S = { } THEN 0
    ELSE LET r == CHOOSE r \in S : TRUE
         IN  Get(combination_scores[r], metric, NaN)[1] + TotalScore(S \ { r }, metric)

\* C2: the average of a metric is the sum of its non-missing scores over
\* the questions of the configuration divided by their number, and it is
\* missing exactly when the metric is missing for every question.
C2_AverageIgnoresMissing ==
    pc = "pause" =>
        \A j \in 1..Len(metric_names) :
            LET metric == metric_names[j]
                average == Get(LastAverages, metric, Absent)
            IN  /\ average # Absent
                /\ IsNaN(average) <=> Scored(metric) = { }
                /\ Scored(metric) # { } =>
                      /\ average[2] > 0
                      /\ average[1] * Cardinality(Scored(metric))
                            = TotalScore(Scored(metric), metric) * average[2]

\* A configuration is averaged in which one metric is missing for every
\* question, one for some questions and one for none.
C2_Witness ==
    /\ pc = "pause"
    /\ Scored("faithfulness") = { }
    /\ Cardinality(Scored("answer_relevancy")) = 2
    /\ Cardinality(Scored("context_recall")) = Len(eval_dataset_pd)
    /\ IsNaN(Get(LastAverages, "faithfulness", Num(0)))
    /\ ~IsNaN(Get(LastAverages, "answer_relevancy", NaN))

====
